---- MODULE Spec2Model ----
(***************************************************************************)
(* A model of pynndescent/utils.py: the generator (tau_rand_int,           *)
(* tau_rand), the rejection sampler (rejection_sample), the per-point      *)
(* bounded neighbour heaps (make_heap, heap_push, deheap_sort,             *)
(* smallest_flagged) and build_candidates.                                 *)
(*                                                                         *)
(* A heap is the ndarray of shape (3, n_points, size): heap[0] holds the   *)
(* indices, heap[1] the weights, heap[2] the is-new flags.  Weights are    *)
(* totally ordered: the integers 0..MaxWeight stand for finite floats and  *)
(* Inf for np.infty, larger than every other weight (NaN is not a weight   *)
(* of the model).  Only the order of the weights and the equality of the   *)
(* indices enter the code modelled here.                                   *)
(*                                                                         *)
(* The generator state is three int64 words, each the set of its 1 bits,   *)
(* and tau_rand_int is computed on them bit by bit.  rejection_sample is   *)
(* modelled over the values its draws return: every draw is some i4, as    *)
(* tau_rand_int is declared to return.  build_candidates advances the      *)
(* words of the generator exactly and lets the weight d it draws be any    *)
(* finite weight.                                                          *)
(***************************************************************************)
EXTENDS Integers, Sequences, FiniteSets, Bags, TLC

\* ---- bounds of the model ----
MaxSlots   == 4    \* n_points * size, the slots of a plane, is at most MaxSlots
MaxIndex   == 2    \* pushed indices range over 0..MaxIndex
MaxWeight  == 1    \* finite weights range over 0..MaxWeight
MaxCalls   == 3    \* heap calls made in one behaviour
MaxSamples == 4    \* n_samples ranges over 0..MaxSamples
MaxPool    == 3    \* pool_size ranges over 0..MaxPool

\* np.infty: larger than every finite weight of the model
Inf == MaxWeight + 1

Weights == (0..MaxWeight) \cup {Inf}
Indices == 0..MaxIndex
Flags   == {0, 1}

\* heap.shape[1] and heap.shape[2]
Shape1(h) == Cardinality(DOMAIN h[0])
Shape2(h) == Cardinality(DOMAIN h[0][0])

VARIABLES
  heap,      \* the ndarray (3, n_points, size) the heap functions work on
  ncalls,    \* the number of heap calls made so far
  hpc,       \* "heap" while the array is a heap, "sorted" after deheap_sort
  call,      \* the last call made: its name and arguments
  ret,       \* the value the last call returned
  sf_run,    \* per row: the result_index of every smallest_flagged call
             \* made since the last heap_push on the row, in call order
  n_samples, \* rejection_sample: argument
  pool_size, \* rejection_sample: argument
  result,    \* rejection_sample: result[0..i-1] are the accepted samples
  rs_i,      \* rejection_sample: the loop variable i
  rs_d,      \* rejection_sample: the last value tau_rand_int returned
  rs_j,      \* rejection_sample: the last draw j
  rs_pc,     \* rejection_sample: "idle", "loop", "done" or "error"
  rng_state, \* the three int64 words of the generator, each as its set of 1 bits
  tr_int,    \* the i4 the last tau_rand_int call returned
  candidate_neighbors, \* build_candidates: the heap it fills and returns
  bc_pc,     \* build_candidates: "idle", "loop" or "returned"
  bc_n_neighbors,      \* build_candidates: argument
  bc_max_candidates,   \* build_candidates: argument
  bc_i,      \* build_candidates: the loop variable i
  bc_j,      \* build_candidates: the loop variable j
  bc_d,      \* build_candidates: the last weight d drawn
  bc_slot,   \* build_candidates: the slot <<i, j>> of the last two pushes
  bc_pushes, \* build_candidates: the arguments and results of those pushes
  bc_rng0,   \* build_candidates: the generator state on entry
  g_hist,    \* per graph row and index: the flag the entry was pushed with
             \* and the number of build_candidates calls begun since
  accepted,  \* per row and weight: the number of pushes of that weight into
             \* the row that returned 1
  pushed,    \* the pushes made so far, each as its (index, weight, flag)
  th,        \* two threads inside heap_push: arguments, position, locals
  overlapped \* TRUE once a thread has taken a step while the other one was
             \* between its first read and its return

vars == <<heap, ncalls, hpc, call, ret, sf_run,
          n_samples, pool_size, result, rs_i, rs_d, rs_j, rs_pc,
          rng_state, tr_int,
          candidate_neighbors, bc_pc, bc_n_neighbors, bc_max_candidates,
          bc_i, bc_j, bc_d, bc_slot, bc_pushes, bc_rng0, g_hist,
          accepted, pushed, th, overlapped>>

heapVars   == <<heap, ncalls, hpc, call, ret, sf_run>>
sampleVars == <<n_samples, pool_size, result, rs_i, rs_d, rs_j, rs_pc>>
rngVars    == <<rng_state, tr_int>>
buildVars  == <<candidate_neighbors, bc_pc, bc_n_neighbors, bc_max_candidates,
                bc_i, bc_j, bc_d, bc_slot, bc_pushes, bc_rng0, g_hist>>
histVars   == <<accepted, pushed>>
raceVars   == <<th, overlapped>>

\* ---- make_heap ----
make_heap(n_pts, size) ==
  [a \in 0..2 |-> [r \in 0..(n_pts - 1) |-> [c \in 0..(size - 1) |->
      IF a = 0 THEN -1 ELSE IF a = 1 THEN Inf ELSE 0]]]

\* ---- heap_push ----
\* line 167: the early return on a weight larger than the root's
\* (RejectWeightNever is the faulty variant without the early return)
RejectWeightNever(h, row, weight) == FALSE

RejectWeight(h, row, weight) == weight > h[1][row][0]

\* lines 171-173: the scan for an index the row already holds
\* (AlreadyPresentFrom1 is the faulty variant whose scan starts at slot 1,
\* AlreadyPresentNever the one without the scan)
AlreadyPresentNever(h, row, index) == FALSE

AlreadyPresentFrom1(h, row, index) ==
  \E i \in 1..(Shape2(h) - 1) : index = h[0][row][i]

AlreadyPresent(h, row, index) ==
  \E i \in 0..(Shape2(h) - 1) : index = h[0][row][i]

\* lines 183-202: the child to swap with, or -1 where the loop breaks
\* (ISwapLeftOnly is the faulty variant that never looks at the right child,
\* ISwapNever the one that breaks at once and leaves the push at the root,
\* ISwapSmallerChild the one that compares with the lighter child)
ISwapNever(h, row, i, weight) == -1

ISwapSmallerChild(h, row, i, weight) ==
  LET ic1 == 2 * i + 1
      ic2 == ic1 + 1
  IN  IF ic1 >= Shape2(h) THEN -1
      ELSE IF ic2 >= Shape2(h)
           THEN (IF h[1][row][ic1] > weight THEN ic1 ELSE -1)
      ELSE IF h[1][row][ic1] <= h[1][row][ic2]
           THEN (IF weight < h[1][row][ic1] THEN ic1 ELSE -1)
      ELSE (IF weight < h[1][row][ic2] THEN ic2 ELSE -1)

ISwapLeftOnly(h, row, i, weight) ==
  LET ic1 == 2 * i + 1
  IN  IF ic1 >= Shape2(h) THEN -1
      ELSE IF weight < h[1][row][ic1] THEN ic1 ELSE -1

ISwap(h, row, i, weight) ==
  LET ic1 == 2 * i + 1
      ic2 == ic1 + 1
  IN  IF ic1 >= Shape2(h) THEN -1
      ELSE IF ic2 >= Shape2(h)
           THEN (IF h[1][row][ic1] > weight THEN ic1 ELSE -1)
      ELSE IF h[1][row][ic1] >= h[1][row][ic2]
           THEN (IF weight < h[1][row][ic1] THEN ic1 ELSE -1)
      ELSE (IF weight < h[1][row][ic2] THEN ic2 ELSE -1)

\* lines 204-206: the entry at i_swap is copied to i
\* (MoveUpNoFlag is the faulty variant that leaves the is-new flag behind)
MoveUpNoFlag(h, row, i, i_swap) ==
  [h EXCEPT ![1][row][i] = h[1][row][i_swap],
            ![0][row][i] = h[0][row][i_swap]]

MoveUp(h, row, i, i_swap) ==
  [h EXCEPT ![1][row][i] = h[1][row][i_swap],
            ![0][row][i] = h[0][row][i_swap],
            ![2][row][i] = h[2][row][i_swap]]

\* lines 181-208: the while loop; yields the array and the final i
RECURSIVE Descend(_, _, _, _)
Descend(h, row, i, weight) ==
  LET i_swap == ISwap(h, row, i, weight)
  IN  IF i_swap = -1
      THEN [heap |-> h, i |-> i]
      ELSE Descend(MoveUp(h, row, i, i_swap), row, i_swap, weight)

\* lines 163-214: the array after the call and the value returned
heap_push(h, row, weight, index, flag) ==
  IF RejectWeight(h, row, weight) THEN [heap |-> h, ret |-> 0]
  ELSE IF AlreadyPresent(h, row, index) THEN [heap |-> h, ret |-> 0]
  ELSE LET h0 == [h EXCEPT ![1][row][0] = weight,
                           ![0][row][0] = index,
                           ![2][row][0] = flag]
           d  == Descend(h0, row, 0, weight)
       IN  [heap |-> [d.heap EXCEPT ![1][row][d.i] = weight,
                                    ![0][row][d.i] = index,
                                    ![2][row][d.i] = flag],
            ret |-> 1]

\* ---- smallest_flagged ----
\* lines 280-283: the scan; yields result_index
RECURSIVE ScanFlagged(_, _, _, _, _)
ScanFlagged(h, row, i, min_dist, result_index) ==
  IF i >= Shape2(h) THEN result_index
  ELSE IF h[2][row][i] # 0 /\ h[1][row][i] < min_dist
       THEN ScanFlagged(h, row, i + 1, h[1][row][i], i)
       ELSE ScanFlagged(h, row, i + 1, min_dist, result_index)

\* line 286: flag[result_index] = 0
\* (ClearFlagNot is the faulty variant that leaves the flag set)
ClearFlagNot(h, row, result_index) == h

ClearFlag(h, row, result_index) == [h EXCEPT ![2][row][result_index] = 0]

\* lines 273-289: the array after the call, the value returned, and the slot
smallest_flagged(h, row) ==
  LET result_index == ScanFlagged(h, row, 0, Inf, -1)
  IN  IF result_index >= 0
      THEN [heap |-> ClearFlag(h, row, result_index),
            ret |-> h[0][row][result_index],
            result_index |-> result_index]
      ELSE [heap |-> h, ret |-> -1, result_index |-> -1]

\* ---- deheap_sort ----
\* lines 261-264 (and 240-243): the two parallel swaps of weights and indices
\* (SwapWeightsOnly is the faulty variant that swaps the weights alone)
SwapWeightsOnly(h, i, p, q) ==
  [h EXCEPT ![1][i][p] = h[1][i][q], ![1][i][q] = h[1][i][p]]

SwapSlots(h, i, p, q) ==
  [h EXCEPT ![1][i][p] = h[1][i][q], ![1][i][q] = h[1][i][p],
            ![0][i][p] = h[0][i][q], ![0][i][q] = h[0][i][p]]

\* lines 246-266: the inner while loop, from root, with heap_end already decremented
RECURSIVE SiftRoot(_, _, _, _)
SiftRoot(h, i, root, heap_end) ==
  IF ~(root * 2 + 1 < heap_end) THEN h
  ELSE LET left_child  == root * 2 + 1
           right_child == left_child + 1
           swap1 == IF h[1][i][root] < h[1][i][left_child] THEN left_child ELSE root
           swap  == IF right_child < heap_end /\ h[1][i][swap1] < h[1][i][right_child]
                    THEN right_child ELSE swap1
       IN  IF swap = root THEN h
           ELSE SiftRoot(SwapSlots(h, i, root, swap), i, swap, heap_end)

\* lines 239-266: the while heap_end >= 0 loop of one row
RECURSIVE SortRow(_, _, _)
SortRow(h, i, heap_end) ==
  IF heap_end < 0 THEN h
  ELSE SortRow(SiftRoot(SwapSlots(h, i, 0, heap_end), i, 0, heap_end - 1),
               i, heap_end - 1)

\* line 237: the loop over the rows
RECURSIVE SortRows(_, _)
SortRows(h, i) ==
  IF i >= Shape1(h) THEN h
  ELSE SortRows(SortRow(h, i, Shape2(h) - 1), i + 1)

\* lines 234-268: the array after the call; the arrays returned are its
\* planes 0 and 1 (the flags of plane 2 are not moved)
deheap_sort(h) == SortRows(h, 0)

sortedIndices == heap[0]
sortedWeights == heap[1]

\* ---- tau_rand_int and tau_rand ----
Int32Max == 2147483647
Int32Min == -Int32Max - 1

\* An int64 is the set of the positions 0..63 of its 1 bits (two's
\* complement, bit 63 the sign), so that & ^ << >> are computed bit by bit
\* at their full width.
Bit64 == 0..63

RECURSIVE Pow2(_)
Pow2(k) == IF k = 0 THEN 1 ELSE 2 * Pow2(k - 1)

\* the int64 holding the integer n, for n in the range of an i4
FromInt(n) ==
  IF n >= 0
  THEN {b \in 0..30 : (n \div Pow2(b)) % 2 = 1}
  ELSE LET m == (n + Int32Max) + 1     \* n + 2^31, the low 31 bits of n
       IN  {b \in 0..30 : (m \div Pow2(b)) % 2 = 1} \cup (31..63)

BitAnd(a, b) == a \cap b
BitXor(a, b) == (a \ b) \cup (b \ a)
\* a << k on int64: the bits shifted past bit 63 are lost
Shl(a, k) == {b + k : b \in a} \cap Bit64
\* a >> k on int64: the arithmetic shift, which copies the sign bit
Sar(a, k) == {b - k : b \in {x \in a : x >= k}}
             \cup (IF 63 \in a THEN (64 - k)..63 ELSE {})

\* 0xffffffff, 4294967294, 4294967288, 4294967280
MaskFFFFFFFF == 0..31
Mask0 == 1..31
Mask1 == 3..31
Mask2 == 4..31

\* lines 22-27: the new value of one word of the state
TauWord(w, mask, a, b, c) ==
  BitXor(BitAnd(Shl(BitAnd(w, mask), a), MaskFFFFFFFF),
         Sar(BitXor(BitAnd(Shl(w, b), MaskFFFFFFFF), w), c))

\* lines 22-27: the state after a call
TauState(state) ==
  <<TauWord(state[1], Mask0, 12, 13, 19),
    TauWord(state[2], Mask1, 4, 2, 25),
    TauWord(state[3], Mask2, 17, 3, 11)>>

\* the return type i4: the low 32 bits of an int64 read as a signed integer
SumBits(w) ==
  LET RECURSIVE S(_)
      S(b) == IF b < 0 THEN 0 ELSE (IF b \in w THEN Pow2(b) ELSE 0) + S(b - 1)
  IN  S(30)

ToI4(w) == IF 31 \in w THEN (SumBits(w) - Int32Max) - 1 ELSE SumBits(w)

\* line 29: the value returned, computed on the state after the updates
tau_rand_int(state) ==
  LET s == TauState(state)
  IN  [state |-> s, ret |-> ToI4(BitXor(BitXor(s[1], s[2]), s[3]))]

\* lines 45-46: tau_rand returns float(integer) / 0x7fffffff: the quotient
\* integer / 0x7fffffff lies in [0, 1] exactly when 0 <= integer <= 0x7fffffff
TauRandNumerator(state) == tau_rand_int(state).ret
TauRandDenominator == Int32Max

\* the seeds of the model: every word some i4 widened to int64
SeedInts == {Int32Min, -1, 1, Int32Max}

\* ---- rejection_sample ----
\* tau_rand_int returns an i4: the draws of the model, negative ones included
DrawValues == {Int32Min, -Int32Max, -1, Int32Max} \cup (0..MaxPool)

\* line 93: the % of two integers is the floored modulo of Python
\* (CRem is the faulty variant: the truncated remainder of C)
CRem(a, b) == IF a >= 0 \/ a % b = 0 THEN a % b ELSE (a % b) - b

PyMod(a, b) == a % b

\* lines 94-98: the for/else scan; TRUE when the draw j is rejected
\* (RejectedFrom1 is the faulty variant whose scan leaves out result[0])
RejectedFrom1(res, i, j) == \E k \in 1..(i - 1) : j = res[k + 1]

Rejected(res, i, j) == \E k \in 0..(i - 1) : j = res[k + 1]

\* ---- build_candidates ----
\* n_vertices is the number of rows of current_graph, and the indices the
\* graph holds are vertices: 0 <= index < n_vertices.  The float32 d that
\* tau_rand returns enters heap_push through its order against the other
\* weights only: the model lets d be any finite weight and keeps the words
\* of the generator exact.
BuildWeights == 0..MaxWeight

\* the generator state of the model before the first call
BuildSeed == <<FromInt(Int32Max), FromInt(Int32Max), FromInt(Int32Max)>>

\* line 326: isn, the flag of the slot
\* (IsnAfterClear is the faulty variant that reads the flag after line 330)
IsnAfterClear(g, i, j) == 0

Isn(g, i, j) == g[2][i][j]

\* line 328: the arguments of the first push
ForwardPush(i, d, idx, isn) ==
  [row |-> i, weight |-> d, index |-> idx, flag |-> isn]

\* line 329: the arguments of the second push
\* (ReversePushSelf is the faulty variant that pushes idx into its own row)
ReversePushSelf(i, d, idx, isn) ==
  [row |-> idx, weight |-> d, index |-> idx, flag |-> isn]

ReversePush(i, d, idx, isn) ==
  [row |-> idx, weight |-> d, index |-> i, flag |-> isn]

\* line 330: current_graph[2, i, j] = 0
\* (ClearSlot is the faulty variant that resets the whole slot)
ClearSlot(g, i, j) ==
  [g EXCEPT ![0][i][j] = -1, ![1][i][j] = Inf, ![2][i][j] = 0]

ClearIsNew(g, i, j) == [g EXCEPT ![2][i][j] = 0]

\* lines 321-322: the slot the loops visit after (i, j)
NextSlot(i, j, n_neighbors) ==
  IF j + 1 < n_neighbors THEN <<i, j + 1>> ELSE <<i + 1, 0>>

\* the entry of a graph row that holds no such index
NoEntry == [new |-> 0, calls |-> -1]

\* ---- the heap operations as actions ----
\* A heap of one row, or of two rows (a call on one row must leave the other
\* alone), of every size the bound on the slots allows.
NoCall == [op |-> "none", row |-> 0, weight |-> 0, index |-> 0, flag |-> 0]

InitHeapVars ==
  /\ \E n_pts \in 1..2, size \in 1..MaxSlots :
        /\ n_pts * size <= MaxSlots
        /\ heap = make_heap(n_pts, size)
  /\ ncalls = 0
  /\ hpc = "heap"
  /\ call = NoCall
  /\ ret = 0
  /\ sf_run = [r \in DOMAIN heap[0] |-> <<>>]

IdleHeapVars ==
  /\ heap = make_heap(1, 1)
  /\ ncalls = 0
  /\ hpc = "heap"
  /\ call = NoCall
  /\ ret = 0
  /\ sf_run = [r \in DOMAIN heap[0] |-> <<>>]

IdleRngVars ==
  /\ rng_state = <<FromInt(1), FromInt(1), FromInt(1)>>
  /\ tr_int = 0

IdleBuildVars ==
  /\ candidate_neighbors = make_heap(1, 1)
  /\ bc_pc = "idle"
  /\ bc_n_neighbors = 0
  /\ bc_max_candidates = 0
  /\ bc_i = 0
  /\ bc_j = 0
  /\ bc_d = 0
  /\ bc_slot = <<0, 0>>
  /\ bc_pushes = <<>>
  /\ bc_rng0 = <<{}, {}, {}>>
  /\ g_hist = <<>>

IdleHistVars ==
  /\ accepted = <<>>
  /\ pushed = {}

IdleRaceVars ==
  /\ th = <<>>
  /\ overlapped = FALSE

IdleSampleVars ==
  /\ n_samples = 0
  /\ pool_size = 0
  /\ result = <<>>
  /\ rs_i = 0
  /\ rs_d = 0
  /\ rs_j = 0
  /\ rs_pc = "idle"

\* one heap_push call on the array: what it does to the heap variables
HeapPushCall(row, weight, index, flag) ==
  /\ hpc = "heap"
  /\ ncalls < MaxCalls
  /\ ncalls' = ncalls + 1
  /\ LET p == heap_push(heap, row, weight, index, flag)
     IN  /\ heap' = p.heap
         /\ ret' = p.ret
  /\ call' = [op |-> "heap_push", row |-> row, weight |-> weight,
              index |-> index, flag |-> flag]
  /\ sf_run' = [sf_run EXCEPT ![row] = <<>>]
  /\ UNCHANGED hpc

HeapPush(row, weight, index, flag) ==
  /\ HeapPushCall(row, weight, index, flag)
  /\ UNCHANGED <<sampleVars, rngVars, buildVars, histVars, raceVars>>

DoHeapPush ==
  \E row \in DOMAIN heap[0], weight \in Weights, index \in Indices, flag \in Flags :
     HeapPush(row, weight, index, flag)

SmallestFlagged(row) ==
  /\ hpc = "heap"
  /\ ncalls < MaxCalls
  /\ ncalls' = ncalls + 1
  /\ LET s == smallest_flagged(heap, row)
     IN  /\ heap' = s.heap
         /\ ret' = s.ret
         /\ sf_run' = [sf_run EXCEPT ![row] = Append(@, s.result_index)]
  /\ call' = [op |-> "smallest_flagged", row |-> row, weight |-> 0,
              index |-> 0, flag |-> 0]
  /\ UNCHANGED <<hpc, sampleVars, rngVars, buildVars, histVars, raceVars>>

DoSmallestFlagged == \E row \in DOMAIN heap[0] : SmallestFlagged(row)

DeheapSort ==
  /\ hpc = "heap"
  /\ heap' = deheap_sort(heap)
  /\ hpc' = "sorted"
  /\ call' = [op |-> "deheap_sort", row |-> 0, weight |-> 0, index |-> 0, flag |-> 0]
  /\ UNCHANGED <<ncalls, ret, sf_run, sampleVars, rngVars, buildVars, histVars, raceVars>>

\* ---- rejection_sample as actions ----
\* entry of the call: arguments chosen, result = np.empty(n_samples), i = 0
InitSampleVars ==
  /\ n_samples \in 0..MaxSamples
  /\ pool_size \in 0..MaxPool
  /\ result = <<>>
  /\ rs_i = 0
  /\ rs_d = 0
  /\ rs_j = 0
  /\ rs_pc = "loop"

\* lines 91-99: one draw of the while loop, with the value d tau_rand_int
\* returned; a modulo by zero raises ZeroDivisionError
RsDraw(d) ==
  /\ rs_pc = "loop"
  /\ rs_i < n_samples
  /\ rs_d' = d
  /\ IF pool_size = 0
     THEN /\ rs_pc' = "error"
          /\ UNCHANGED <<result, rs_i, rs_j>>
     ELSE LET j == PyMod(d, pool_size)
          IN  /\ rs_j' = j
              /\ IF Rejected(result, rs_i, j)
                 THEN UNCHANGED <<result, rs_i>>
                 ELSE /\ result' = Append(result, j)
                      /\ rs_i' = rs_i + 1
              /\ UNCHANGED rs_pc
  /\ UNCHANGED <<n_samples, pool_size, heapVars, rngVars, buildVars, histVars, raceVars>>

DoRsDraw == \E d \in DrawValues : RsDraw(d)

\* line 100: the for loop is exhausted and the result returned
RsReturn ==
  /\ rs_pc = "loop"
  /\ rs_i >= n_samples
  /\ rs_pc' = "done"
  /\ UNCHANGED <<n_samples, pool_size, result, rs_i, rs_d, rs_j, heapVars, rngVars, buildVars, histVars, raceVars>>

\* ---- tau_rand as an action ----
InitRngVars ==
  /\ rng_state \in {<<FromInt(a), FromInt(b), FromInt(c)>> : a, b, c \in SeedInts}
  /\ tr_int = 0

\* lines 45-46: one call of tau_rand; tr_int is the integer it divides
TauRand ==
  /\ ncalls < MaxCalls
  /\ ncalls' = ncalls + 1
  /\ LET t == tau_rand_int(rng_state)
     IN  /\ rng_state' = t.state
         /\ tr_int' = t.ret
  /\ call' = [op |-> "tau_rand", row |-> 0, weight |-> 0, index |-> 0, flag |-> 0]
  /\ UNCHANGED <<heap, hpc, ret, sf_run, sampleVars, buildVars, histVars, raceVars>>

\* ---- nearest neighbour descent: pushes into the graph and build_candidates ----
InitBuildVars ==
  /\ candidate_neighbors = make_heap(1, 1)
  /\ bc_pc = "idle"
  /\ bc_n_neighbors = 0
  /\ bc_max_candidates = 0
  /\ bc_i = 0
  /\ bc_j = 0
  /\ bc_d = 0
  /\ bc_slot = <<0, 0>>
  /\ bc_pushes = <<>>
  /\ bc_rng0 = <<{}, {}, {}>>
  /\ g_hist = [r \in DOMAIN heap[0] |-> [x \in DOMAIN heap[0] |-> NoEntry]]

\* a heap_push into the graph between two build_candidates calls; the
\* candidate heap of the last call is dropped
GraphPush(row, weight, index, flag) ==
  /\ bc_pc # "loop"
  /\ hpc = "heap"
  /\ ncalls < MaxCalls
  /\ ncalls' = ncalls + 1
  /\ LET p == heap_push(heap, row, weight, index, flag)
         evicted == heap[0][row][0]
         h1 == IF evicted >= 0 THEN [g_hist EXCEPT ![row][evicted] = NoEntry]
               ELSE g_hist
     IN  /\ heap' = p.heap
         /\ ret' = p.ret
         /\ g_hist' = IF p.ret = 1
                      THEN [h1 EXCEPT ![row][index] = [new |-> flag, calls |-> 0]]
                      ELSE g_hist
  /\ call' = [op |-> "heap_push", row |-> 0, weight |-> 0, index |-> 0, flag |-> 0]
  /\ UNCHANGED <<hpc, sf_run>>
  /\ candidate_neighbors' = make_heap(1, 1)
  /\ bc_pc' = "idle"
  /\ bc_n_neighbors' = 0
  /\ bc_max_candidates' = 0
  /\ bc_i' = 0
  /\ bc_j' = 0
  /\ bc_d' = 0
  /\ bc_slot' = <<0, 0>>
  /\ bc_pushes' = <<>>
  /\ bc_rng0' = <<{}, {}, {}>>
  /\ UNCHANGED <<sampleVars, rngVars, histVars, raceVars>>

DoGraphPush ==
  \E row \in DOMAIN heap[0], weight \in Weights, index \in DOMAIN heap[0],
     flag \in Flags : GraphPush(row, weight, index, flag)

\* line 320: the entry of build_candidates(current_graph, n_vertices,
\* n_neighbors, max_candidates, rng_state)
BcCall(n_neighbors, max_candidates) ==
  /\ bc_pc # "loop"
  /\ hpc = "heap"
  /\ ncalls < MaxCalls
  /\ ncalls' = ncalls + 1
  /\ call' = [op |-> "build_candidates", row |-> 0, weight |-> 0, index |-> 0,
              flag |-> 0]
  /\ candidate_neighbors' = make_heap(Shape1(heap), max_candidates)
  /\ bc_pc' = "loop"
  /\ bc_n_neighbors' = n_neighbors
  /\ bc_max_candidates' = max_candidates
  /\ bc_i' = 0
  /\ bc_j' = 0
  /\ bc_d' = 0
  /\ bc_slot' = <<0, 0>>
  /\ bc_pushes' = <<>>
  /\ bc_rng0' = rng_state
  /\ g_hist' = [r \in DOMAIN g_hist |-> [x \in DOMAIN g_hist[r] |->
                  IF g_hist[r][x] = NoEntry THEN NoEntry
                  ELSE [g_hist[r][x] EXCEPT !.calls = @ + 1]]]
  /\ UNCHANGED <<heap, hpc, ret, sf_run, sampleVars, rngVars, histVars, raceVars>>

DoBcCall ==
  \E n_neighbors \in 0..Shape2(heap), max_candidates \in 1..MaxSlots :
     /\ Shape1(heap) * max_candidates <= MaxSlots
     /\ BcCall(n_neighbors, max_candidates)

\* a call of a descent round: n_neighbors is the capacity of the graph rows
\* (the candidate heap plays no part in the flags of the graph: the rounds
\* of the model ask for one candidate per vertex)
DoBcCallFull == BcCall(Shape2(heap), 1)

\* the pushes that build the graph before the first build_candidates call
DoGraphPushFirst == bc_pc = "idle" /\ DoGraphPush

\* lines 323-324: an empty slot is skipped
BcSkip ==
  /\ bc_pc = "loop"
  /\ bc_i < Shape1(heap)
  /\ bc_j < bc_n_neighbors
  /\ heap[0][bc_i][bc_j] < 0
  /\ bc_i' = NextSlot(bc_i, bc_j, bc_n_neighbors)[1]
  /\ bc_j' = NextSlot(bc_i, bc_j, bc_n_neighbors)[2]
  /\ UNCHANGED <<heapVars, sampleVars, rngVars, candidate_neighbors, bc_pc,
                 bc_n_neighbors, bc_max_candidates, bc_d, bc_slot, bc_pushes,
                 bc_rng0, g_hist, histVars, raceVars>>

\* lines 325-330: one slot is handed to the two pushes, with the weight d
BcSlot(d) ==
  /\ bc_pc = "loop"
  /\ bc_i < Shape1(heap)
  /\ bc_j < bc_n_neighbors
  /\ ~(heap[0][bc_i][bc_j] < 0)
  /\ LET idx == heap[0][bc_i][bc_j]
         isn == Isn(heap, bc_i, bc_j)
         t   == tau_rand_int(rng_state)
         a1  == ForwardPush(bc_i, d, idx, isn)
         p1  == heap_push(candidate_neighbors, a1.row, a1.weight, a1.index, a1.flag)
         a2  == ReversePush(bc_i, d, idx, isn)
         p2  == heap_push(p1.heap, a2.row, a2.weight, a2.index, a2.flag)
     IN  /\ rng_state' = t.state
         /\ tr_int' = t.ret
         /\ bc_d' = d
         /\ candidate_neighbors' = p2.heap
         /\ bc_slot' = <<bc_i, bc_j>>
         /\ bc_pushes' = <<[call |-> a1, ret |-> p1.ret], [call |-> a2, ret |-> p2.ret]>>
         /\ heap' = ClearIsNew(heap, bc_i, bc_j)
  /\ bc_i' = NextSlot(bc_i, bc_j, bc_n_neighbors)[1]
  /\ bc_j' = NextSlot(bc_i, bc_j, bc_n_neighbors)[2]
  /\ UNCHANGED <<ncalls, hpc, call, ret, sf_run, sampleVars, bc_pc,
                 bc_n_neighbors, bc_max_candidates, bc_rng0, g_hist, histVars,
                 raceVars>>

DoBcSlot == \E d \in BuildWeights : BcSlot(d)

\* line 332: the loops are exhausted and the candidate heap returned
BcReturn ==
  /\ bc_pc = "loop"
  /\ (bc_i >= Shape1(heap) \/ bc_n_neighbors = 0)
  /\ bc_pc' = "returned"
  /\ UNCHANGED <<heapVars, sampleVars, rngVars, candidate_neighbors,
                 bc_n_neighbors, bc_max_candidates, bc_i, bc_j, bc_d, bc_slot,
                 bc_pushes, bc_rng0, g_hist, histVars, raceVars>>

\* ---- heap_push with the history of its calls ----
\* a heap_push call, with the weights of the accepted pushes recorded
PushAccepted(row, weight, index, flag) ==
  /\ HeapPushCall(row, weight, index, flag)
  /\ accepted' = IF heap_push(heap, row, weight, index, flag).ret = 1
                 THEN [accepted EXCEPT ![row][weight] = @ + 1]
                 ELSE accepted
  /\ UNCHANGED <<pushed, sampleVars, rngVars, buildVars, raceVars>>

DoPushAccepted ==
  \E row \in DOMAIN heap[0], weight \in Weights, index \in Indices, flag \in Flags :
     PushAccepted(row, weight, index, flag)

\* the finite weights of pushes that do not conflict: negative ones too
FiniteWeights == (0 - MaxWeight - 1)..MaxWeight

\* a heap_push call into row 0 whose index and whose finite weight no
\* earlier push had
PushDistinct(weight, index, flag) ==
  /\ \A q \in pushed : q.index # index /\ q.weight # weight
  /\ HeapPushCall(0, weight, index, flag)
  /\ pushed' = pushed \cup {[index |-> index, weight |-> weight, flag |-> flag]}
  /\ UNCHANGED <<accepted, sampleVars, rngVars, buildVars, raceVars>>

DoPushDistinct ==
  \E weight \in FiniteWeights, index \in Indices, flag \in Flags :
     PushDistinct(weight, index, flag)

\* ---- two heap_push calls of build_candidates that interleave ----
\* Two vertex iterations of build_candidates, each inside one heap_push call
\* on the candidate heap.  A step of a thread is one line of heap_push: one
\* read or one write of the shared array (the tests of lines 186-202 read
\* the children in one step).  No lock orders the steps of the two threads.
Threads == {1, 2}

\* the vertices of the graph of two vertices: the rows and the indices
Rows2 == {0, 1}

\* lines 171-173: one test of the scan
\* (ThScanMiss is the faulty variant whose test never succeeds)
ThScanMiss(h, row, k, index) == FALSE

ThScanHit(h, row, k, index) == index = h[0][row][k]

\* a thread at the entry of heap_push(candidate_neighbors, row, weight, index, flag)
ThEntry(row, weight, index, flag) ==
  [pc |-> "167", row |-> row, weight |-> weight, index |-> index,
   flag |-> flag, k |-> 0, i |-> 0, i_swap |-> 0, ret |-> -1]

ThActive(t) == th[t].pc \notin {"167", "done"}

\* what every step of thread t does besides its own line
ThFrame(t) ==
  /\ overlapped' = (overlapped \/ \E u \in Threads \ {t} : ThActive(u))
  /\ UNCHANGED <<heapVars, sampleVars, rngVars, histVars, bc_pc,
                 bc_n_neighbors, bc_max_candidates, bc_i, bc_j, bc_d, bc_slot,
                 bc_pushes, bc_rng0, g_hist>>

\* lines 167-168
Th167(t) ==
  /\ th[t].pc = "167"
  /\ th' = IF th[t].weight > candidate_neighbors[1][th[t].row][0]
           THEN [th EXCEPT ![t].pc = "done", ![t].ret = 0]
           ELSE [th EXCEPT ![t].pc = "171", ![t].k = 0]
  /\ UNCHANGED candidate_neighbors
  /\ ThFrame(t)

\* lines 171-173: one iteration of the scan
Th171(t) ==
  /\ th[t].pc = "171"
  /\ th' = IF ThScanHit(candidate_neighbors, th[t].row, th[t].k, th[t].index)
           THEN [th EXCEPT ![t].pc = "done", ![t].ret = 0]
           ELSE IF th[t].k + 1 < Shape2(candidate_neighbors)
                THEN [th EXCEPT ![t].k = @ + 1]
                ELSE [th EXCEPT ![t].pc = "176"]
  /\ UNCHANGED candidate_neighbors
  /\ ThFrame(t)

\* lines 176-178 and 181: the three writes of the root, one per step
Th176(t) ==
  /\ th[t].pc = "176"
  /\ candidate_neighbors' =
        [candidate_neighbors EXCEPT ![1][th[t].row][0] = th[t].weight]
  /\ th' = [th EXCEPT ![t].pc = "177"]
  /\ ThFrame(t)

Th177(t) ==
  /\ th[t].pc = "177"
  /\ candidate_neighbors' =
        [candidate_neighbors EXCEPT ![0][th[t].row][0] = th[t].index]
  /\ th' = [th EXCEPT ![t].pc = "178"]
  /\ ThFrame(t)

Th178(t) ==
  /\ th[t].pc = "178"
  /\ candidate_neighbors' =
        [candidate_neighbors EXCEPT ![2][th[t].row][0] = th[t].flag]
  /\ th' = [th EXCEPT ![t].pc = "183", ![t].i = 0]
  /\ ThFrame(t)

\* lines 183-202: the choice of i_swap, or the break
Th183(t) ==
  /\ th[t].pc = "183"
  /\ LET i_swap == ISwap(candidate_neighbors, th[t].row, th[t].i, th[t].weight)
     IN  th' = IF i_swap = -1
               THEN [th EXCEPT ![t].pc = "210"]
               ELSE [th EXCEPT ![t].pc = "204", ![t].i_swap = i_swap]
  /\ UNCHANGED candidate_neighbors
  /\ ThFrame(t)

\* lines 204-208: the three copies from i_swap to i, one per step
Th204(t) ==
  /\ th[t].pc = "204"
  /\ candidate_neighbors' =
        [candidate_neighbors EXCEPT ![1][th[t].row][th[t].i] =
           candidate_neighbors[1][th[t].row][th[t].i_swap]]
  /\ th' = [th EXCEPT ![t].pc = "205"]
  /\ ThFrame(t)

Th205(t) ==
  /\ th[t].pc = "205"
  /\ candidate_neighbors' =
        [candidate_neighbors EXCEPT ![0][th[t].row][th[t].i] =
           candidate_neighbors[0][th[t].row][th[t].i_swap]]
  /\ th' = [th EXCEPT ![t].pc = "206"]
  /\ ThFrame(t)

Th206(t) ==
  /\ th[t].pc = "206"
  /\ candidate_neighbors' =
        [candidate_neighbors EXCEPT ![2][th[t].row][th[t].i] =
           candidate_neighbors[2][th[t].row][th[t].i_swap]]
  /\ th' = [th EXCEPT ![t].pc = "183", ![t].i = th[t].i_swap]
  /\ ThFrame(t)

\* lines 210-214: the three writes at i, one per step, and the return
Th210(t) ==
  /\ th[t].pc = "210"
  /\ candidate_neighbors' =
        [candidate_neighbors EXCEPT ![1][th[t].row][th[t].i] = th[t].weight]
  /\ th' = [th EXCEPT ![t].pc = "211"]
  /\ ThFrame(t)

Th211(t) ==
  /\ th[t].pc = "211"
  /\ candidate_neighbors' =
        [candidate_neighbors EXCEPT ![0][th[t].row][th[t].i] = th[t].index]
  /\ th' = [th EXCEPT ![t].pc = "212"]
  /\ ThFrame(t)

Th212(t) ==
  /\ th[t].pc = "212"
  /\ candidate_neighbors' =
        [candidate_neighbors EXCEPT ![2][th[t].row][th[t].i] = th[t].flag]
  /\ th' = [th EXCEPT ![t].pc = "done", ![t].ret = 1]
  /\ ThFrame(t)

ThStep(t) ==
  \/ Th167(t) \/ Th171(t)
  \/ Th176(t) \/ Th177(t) \/ Th178(t)
  \/ Th183(t)
  \/ Th204(t) \/ Th205(t) \/ Th206(t)
  \/ Th210(t) \/ Th211(t) \/ Th212(t)

\* ---- specifications ----
InitHeap == InitHeapVars /\ IdleSampleVars /\ IdleRngVars /\ IdleBuildVars /\ IdleHistVars /\ IdleRaceVars

\* the heap under heap_push, read out once by deheap_sort
NextHeap == DoHeapPush \/ DeheapSort

SpecHeap == InitHeap /\ [][NextHeap]_vars

\* the heap under heap_push alone
NextPush == DoHeapPush

SpecPush == InitHeap /\ [][NextPush]_vars

\* the heap under heap_push and smallest_flagged
NextFlagged == DoHeapPush \/ DoSmallestFlagged

SpecFlagged == InitHeap /\ [][NextFlagged]_vars

InitSample == IdleHeapVars /\ InitSampleVars /\ IdleRngVars /\ IdleBuildVars /\ IdleHistVars /\ IdleRaceVars

\* the generator under repeated tau_rand calls
InitRng == IdleHeapVars /\ IdleSampleVars /\ InitRngVars /\ IdleBuildVars /\ IdleHistVars /\ IdleRaceVars

NextRng == TauRand

SpecRng == InitRng /\ [][NextRng]_vars

NextSample == DoRsDraw \/ RsReturn

SpecSample == InitSample /\ [][NextSample]_vars

\* a fair generator: every value is drawn again and again
SpecSampleFair ==
  /\ SpecSample
  /\ \A d \in DrawValues : WF_vars(RsDraw(d))
  /\ WF_vars(RsReturn)

\* build_candidates on the graphs that heap_push builds
InitBuild ==
  /\ InitHeapVars
  /\ IdleSampleVars
  /\ rng_state = BuildSeed
  /\ tr_int = 0
  /\ InitBuildVars
  /\ IdleHistVars /\ IdleRaceVars

NextBuild == DoGraphPushFirst \/ DoBcCall \/ BcSkip \/ DoBcSlot \/ BcReturn

SpecBuild == InitBuild /\ [][NextBuild]_vars

\* descent rounds: every build_candidates call covers the whole graph rows
NextDescent == DoGraphPush \/ DoBcCallFull \/ BcSkip \/ DoBcSlot \/ BcReturn

SpecDescent == InitBuild /\ [][NextDescent]_vars

\* a fresh heap of one row, of every size the bound on the slots allows
InitRowVars ==
  /\ \E size \in 1..MaxSlots : heap = make_heap(1, size)
  /\ ncalls = 0
  /\ hpc = "heap"
  /\ call = NoCall
  /\ ret = 0
  /\ sf_run = [r \in DOMAIN heap[0] |-> <<>>]

\* heap_push calls on one row with the accepted weights recorded
InitAccepted ==
  /\ InitRowVars
  /\ IdleSampleVars /\ IdleRngVars /\ IdleBuildVars /\ IdleRaceVars
  /\ accepted = [r \in DOMAIN heap[0] |-> [w \in Weights |-> 0]]
  /\ pushed = {}

NextAccepted == DoPushAccepted

SpecAccepted == InitAccepted /\ [][NextAccepted]_vars

\* pushes into one row of a fresh heap that do not conflict, in every order
InitOrder ==
  /\ InitRowVars
  /\ IdleSampleVars /\ IdleRngVars /\ IdleBuildVars /\ IdleRaceVars
  /\ accepted = <<>>
  /\ pushed = {}

NextOrder == DoPushDistinct

SpecOrder == InitOrder /\ [][NextOrder]_vars

\* two threads, each about to push into the fresh candidate heap of a graph
\* of two vertices
InitRace ==
  /\ IdleHeapVars /\ IdleSampleVars /\ IdleRngVars /\ IdleHistVars
  /\ \E max_candidates \in 1..MaxSlots :
        /\ 2 * max_candidates <= MaxSlots
        /\ candidate_neighbors = make_heap(2, max_candidates)
  /\ bc_pc = "loop"
  /\ bc_n_neighbors = 0
  /\ bc_max_candidates = Shape2(candidate_neighbors)
  /\ bc_i = 0
  /\ bc_j = 0
  /\ bc_d = 0
  /\ bc_slot = <<0, 0>>
  /\ bc_pushes = <<>>
  /\ bc_rng0 = <<{}, {}, {}>>
  /\ g_hist = <<>>
  /\ th \in [Threads -> {ThEntry(row, weight, index, flag) :
                           row \in Rows2, weight \in BuildWeights,
                           index \in Rows2, flag \in Flags}]
  /\ overlapped = FALSE

NextRace == \E t \in Threads : ThStep(t)

SpecRace == InitRace /\ [][NextRace]_vars

Init == InitHeap
Next == DoHeapPush \/ DoSmallestFlagged \/ DeheapSort
Spec == Init /\ [][Next]_vars

\* ---- properties ----
Rows(h)  == DOMAIN h[0]
Slots(h) == DOMAIN h[0][0]

\* weight[parent] >= weight[child] for the children 2p+1, 2p+2 in range
MaxHeapRow(h, r) ==
  \A p \in Slots(h) : \A c \in {2 * p + 1, 2 * p + 2} :
     c \in Slots(h) => h[1][r][p] >= h[1][r][c]

\* no two slots of the row hold the same index other than -1
NoDuplicateRow(h, r) ==
  \A a, b \in Slots(h) :
     (a # b /\ h[0][r][a] # -1) => h[0][r][a] # h[0][r][b]

\* C1: after any sequence of heap_push calls on a fresh heap every row is a
\* max-heap on the weights and holds no index other than -1 twice.
C1_HeapInvariant ==
  hpc = "heap" => \A r \in Rows(heap) : MaxHeapRow(heap, r) /\ NoDuplicateRow(heap, r)

\* an accepted push filled a row of three slots and was sifted below the root
C1_Witness ==
  /\ hpc = "heap" /\ call.op = "heap_push" /\ ret = 1
  /\ Cardinality(Slots(heap)) = 3
  /\ \A c \in Slots(heap) : heap[0][call.row][c] # -1
  /\ heap[0][call.row][0] # call.index

\* C2: a push whose weight is >= the root's weight returns 0 and leaves the
\* row unchanged (the case weight = root's weight included).
C2_RejectAtOrAboveRoot ==
  [][(call'.op = "heap_push" /\ call'.weight >= heap[1][call'.row][0])
       => (ret' = 0 /\ \A a \in 0..2 : heap'[a][call'.row] = heap[a][call'.row])]_vars

\* C3: a push of an index the row already holds returns 0 and leaves the whole
\* heap unchanged, whatever the weight and the flag.
C3_RejectPresent ==
  [][(call'.op = "heap_push"
        /\ \E c \in Slots(heap) : heap[0][call'.row][c] = call'.index)
       => (ret' = 0 /\ heap' = heap)]_vars

\* a push of a held index with a weight below the stored one was turned down
C3_Witness ==
  /\ call.op = "heap_push" /\ ret = 0
  /\ \E c \in Slots(heap) :
        /\ heap[0][call.row][c] = call.index
        /\ call.weight < heap[1][call.row][c]
        /\ call.flag # heap[2][call.row][c]

\* C4: deheap_sort returns the weights of every row in ascending order.
C4_Ascending ==
  hpc = "sorted" =>
     \A r \in Rows(heap) : \A k \in Slots(heap) :
        (k + 1) \in Slots(heap) => sortedWeights[r][k] <= sortedWeights[r][k + 1]

\* the bag of (index, weight) pairs of a row
PairBag(h, r) ==
  LET pair(c) == <<h[0][r][c], h[1][r][c]>>
  IN  [p \in {pair(c) : c \in Slots(h)} |->
         Cardinality({c \in Slots(h) : pair(c) = p})]

\* C5: for every row the bag of (index, weight) pairs deheap_sort returns is the
\* bag of pairs the row held before the call.
C5_Permutation ==
  [][(hpc = "heap" /\ hpc' = "sorted")
       => \A r \in Rows(heap) :
            PairBag([a \in 0..1 |-> IF a = 0 THEN sortedIndices' ELSE sortedWeights'], r)
               = PairBag(heap, r)]_vars

\* deheap_sort rearranged the populated slots of both rows of a heap
C5_Witness ==
  /\ hpc = "sorted"
  /\ Cardinality(Rows(heap)) = 2
  /\ Cardinality(Slots(heap)) = 2
  /\ \A r \in Rows(heap) :
        /\ heap[0][r][0] # -1
        /\ heap[1][r][0] < heap[1][r][1]

\* C6: smallest_flagged returns -1 exactly when no slot of the row is flagged.
C6_MinusOneIffNoFlag ==
  [][call'.op = "smallest_flagged"
       => ((ret' = -1) <=> (\A c \in Slots(heap) : heap[2][call'.row][c] = 0))]_vars

\* C7: a smallest_flagged call that returns a value other than -1 returns the
\* index of a flagged slot of minimal weight among the flagged slots of the row
\* and clears exactly that slot's flag; a call that returns -1 changes nothing;
\* and in a run of calls on one row without a heap_push on it no slot is
\* returned twice, a -1 is followed only by -1, and at most size calls return
\* a slot.
C7_Step ==
  call'.op = "smallest_flagged" =>
     LET r == call'.row
     IN  IF ret' # -1
         THEN \E s \in Slots(heap) :
                 /\ heap[0][r][s] = ret'
                 /\ heap[2][r][s] # 0
                 /\ \A c \in Slots(heap) :
                       heap[2][r][c] # 0 => heap[1][r][s] <= heap[1][r][c]
                 /\ heap' = [heap EXCEPT ![2][r][s] = 0]
         ELSE heap' = heap

C7_Run ==
  \A r \in Rows(heap) :
     /\ \A a, b \in 1..Len(sf_run[r]) :
           a < b => /\ sf_run[r][a] = -1 => sf_run[r][b] = -1
                    /\ sf_run[r][a] # -1 => sf_run[r][a] # sf_run[r][b]
     /\ Len(sf_run[r]) > Cardinality(Slots(heap))
           => sf_run[r][Cardinality(Slots(heap)) + 1] = -1

C7_SmallestFlagged == [][C7_Step]_vars /\ []C7_Run

\* a call returned the lighter of two flagged slots and left the other flagged
C7_Witness ==
  /\ call.op = "smallest_flagged" /\ ret # -1
  /\ \E s, c \in Slots(heap) :
        /\ sf_run[call.row] = <<s>>
        /\ heap[0][call.row][s] = ret
        /\ heap[2][call.row][s] = 0
        /\ heap[2][call.row][c] # 0
        /\ heap[1][call.row][s] < heap[1][call.row][c]

\* C8: a rejection_sample call with n_samples <= pool_size that returns,
\* returns n_samples pairwise distinct values of 0..pool_size-1, and a
\* permutation of 0..pool_size-1 when n_samples = pool_size.
C8_Sample ==
  (rs_pc = "done" /\ n_samples <= pool_size) =>
     /\ Len(result) = n_samples
     /\ \A a, b \in 1..Len(result) : a # b => result[a] # result[b]
     /\ \A a \in 1..Len(result) : result[a] >= 0 /\ result[a] < pool_size
     /\ n_samples = pool_size =>
           {result[a] : a \in 1..Len(result)} = 0..(pool_size - 1)

\* a full permutation was returned and its last sample came from a negative draw
C8_Witness ==
  /\ rs_pc = "done"
  /\ n_samples = pool_size /\ pool_size >= 3
  /\ rs_d < 0
  /\ result[Len(result)] = rs_j

\* C9 as stated: the call returns for n_samples <= pool_size when the generator
\* is fair, and for n_samples > pool_size it loops for ever, neither returning
\* nor reporting an error.
C9_AsStated ==
  /\ (n_samples <= pool_size) ~> (rs_pc = "done")
  /\ [](n_samples > pool_size => rs_pc = "loop")

\* C9 as amended: the call returns for n_samples <= pool_size when the generator
\* is fair; for n_samples > pool_size >= 1 it neither returns nor reports an
\* error and ends up looping at sample position pool_size for ever; for
\* pool_size = 0 and n_samples >= 1 the first draw raises ZeroDivisionError.
C9_Termination ==
  /\ (n_samples <= pool_size) ~> (rs_pc = "done")
  /\ [](n_samples > pool_size /\ pool_size >= 1 => rs_pc = "loop" /\ rs_i <= pool_size)
  /\ (n_samples > pool_size /\ pool_size >= 1) ~> [](rs_i = pool_size)
  /\ [](n_samples >= 1 /\ pool_size = 0 => rs_pc \in {"loop", "error"})
  /\ (n_samples >= 1 /\ pool_size = 0) ~> (rs_pc = "error")

\* the call is stuck at sample position pool_size, every residue being taken
C9_Witness ==
  /\ rs_pc = "loop"
  /\ n_samples > pool_size /\ pool_size >= 2
  /\ rs_i = pool_size
  /\ rs_j = result[1]

\* C11: tau_rand returns a value in [0, 1]: the i4 of tau_rand_int that it
\* divides by 0x7fffffff is never negative.
C11_UnitInterval == 0 <= tr_int /\ tr_int <= TauRandDenominator

\* C12: for every graph slot (i, j) with i < n_vertices, j < n_neighbors
\* and an index nb >= 0 holding the flag f, build_candidates calls heap_push
\* on the candidate heap for (row i, index nb) and for (row nb, index i),
\* with one and the same weight d and with the flag f read before the slot
\* is cleared; and when the call returns the flag of every such slot is 0,
\* whether or not the pushes were accepted.
C12_Step ==
  (/\ bc_pc = "loop"
   /\ bc_i < Shape1(heap)
   /\ bc_j < bc_n_neighbors
   /\ heap[0][bc_i][bc_j] >= 0)
  => LET nb == heap[0][bc_i][bc_j]
         f  == heap[2][bc_i][bc_j]
         d  == bc_d'
     IN  /\ bc_slot' = <<bc_i, bc_j>>
         /\ Len(bc_pushes') = 2
         /\ bc_pushes'[1].call = [row |-> bc_i, weight |-> d, index |-> nb, flag |-> f]
         /\ bc_pushes'[2].call = [row |-> nb, weight |-> d, index |-> bc_i, flag |-> f]
         /\ candidate_neighbors' =
               heap_push(heap_push(candidate_neighbors, bc_i, d, nb, f).heap,
                         nb, d, bc_i, f).heap
         /\ heap'[2][bc_i][bc_j] = 0

C12_Returned ==
  bc_pc = "returned" =>
    \A i \in Rows(heap), j \in Slots(heap) :
       (j < bc_n_neighbors /\ heap[0][i][j] >= 0) => heap[2][i][j] = 0

C12_BothPushes == [][C12_Step]_vars /\ []C12_Returned

\* the call has returned; the last slot held a flagged entry, its first push
\* was accepted and its second push rejected, and its flag is cleared
C12_Witness ==
  /\ bc_pc = "returned"
  /\ Len(bc_pushes) = 2
  /\ bc_pushes[1].call.flag = 1
  /\ bc_pushes[1].ret = 1
  /\ bc_pushes[2].ret = 0
  /\ bc_pushes[1].call.row # bc_pushes[2].call.row
  /\ heap[2][bc_slot[1]][bc_slot[2]] = 0

\* C13: in the candidate heap build_candidates returns, every populated
\* entry x of row v is a neighbour or a reverse neighbour of v (the graph
\* holds x in row v or v in row x within the first n_neighbors slots), every
\* row is a max-heap of max_candidates slots without a duplicate index, and
\* a row v whose max_candidates is at least the number of the distinct
\* neighbours and reverse neighbours of v holds all of them.
Neighbours(v) ==
  {x \in Rows(heap) :
     \E j \in Slots(heap) :
        j < bc_n_neighbors /\ (heap[0][v][j] = x \/ heap[0][x][j] = v)}

Held(v) ==
  {candidate_neighbors[0][v][c] : c \in Slots(candidate_neighbors)} \ {-1}

C13_Candidates ==
  bc_pc = "returned" =>
    /\ Rows(candidate_neighbors) = Rows(heap)
    /\ Cardinality(Slots(candidate_neighbors)) = bc_max_candidates
    /\ \A v \in Rows(heap) :
          /\ Held(v) \subseteq Neighbours(v)
          /\ MaxHeapRow(candidate_neighbors, v)
          /\ NoDuplicateRow(candidate_neighbors, v)
          /\ (bc_max_candidates >= Cardinality(Neighbours(v))
                => Held(v) = Neighbours(v))

\* returned: vertex 0 has two candidates, vertex 1 a reverse neighbour only
\* (the graph holds 0 in row 1 but not 1 in row 0), and the row of vertex 0,
\* of two slots, holds both
C13_Witness ==
  /\ bc_pc = "returned"
  /\ bc_max_candidates = 2
  /\ Cardinality(Rows(heap)) = 2
  /\ Neighbours(0) = {0, 1}
  /\ Held(0) = {0, 1}
  /\ \A j \in Slots(heap) : heap[0][0][j] # 1
  /\ \E j \in Slots(heap) : j < bc_n_neighbors /\ heap[0][1][j] = 0

\* C14: after any sequence of heap_push calls on one row the multiset of the
\* weights stored in the row is that of the capacity smallest weights among
\* the pushes that returned 1, padded with +infinity when fewer than capacity
\* pushes were accepted; an accepted push evicts exactly the entry that was
\* at the root, the row maximum, and no other entry leaves the row.
\* the number of the slots of row r that hold the weight w
Stored(r, w) == Cardinality({c \in Slots(heap) : heap[1][r][c] = w})

\* the number of accepted weights <= w, capped at the capacity
RECURSIVE AcceptedUpTo(_, _)
AcceptedUpTo(r, w) ==
  IF w < 0 THEN 0 ELSE accepted[r][w] + AcceptedUpTo(r, w - 1)

Kept(r, w) ==
  LET cap == Cardinality(Slots(heap))
      below == IF AcceptedUpTo(r, w) < cap THEN AcceptedUpTo(r, w) ELSE cap
  IN  below

C14_Smallest ==
  \A r \in Rows(heap) :
     /\ \A w \in 0..MaxWeight : Stored(r, w) = Kept(r, w) - Kept(r, w - 1)
     /\ Stored(r, Inf) = Cardinality(Slots(heap)) - Kept(r, MaxWeight)

\* the (index, weight) entries of a row, as a bag
EntryBag(h, r) ==
  LET e(c) == <<h[0][r][c], h[1][r][c]>>
  IN  [p \in {e(c) : c \in Slots(h)} |->
         Cardinality({c \in Slots(h) : e(c) = p})]

C14_Evicts ==
  call'.op = "heap_push" =>
    LET r == call'.row
    IN  /\ ret' = 1 =>
             /\ \A c \in Slots(heap) : heap[1][r][0] >= heap[1][r][c]
             /\ EntryBag(heap', r) (+) SetToBag({<<heap[0][r][0], heap[1][r][0]>>})
                  = EntryBag(heap, r) (+) SetToBag({<<call'.index, call'.weight>>})
        /\ ret' = 0 => heap' = heap

C14_SmallestAccepted == [][C14_Evicts]_vars /\ []C14_Smallest

\* a row of two slots that has accepted three pushes: the heaviest one has
\* been evicted by a lighter one and the two lightest are stored
C14_Witness ==
  /\ Cardinality(Slots(heap)) = 2
  /\ ret = 1
  /\ accepted[call.row][0] = 1
  /\ accepted[call.row][1] = 2
  /\ call.weight = 0
  /\ Stored(call.row, 0) = 1
  /\ Stored(call.row, 1) = 1

\* C15: for a set of pushes into one row of a fresh heap whose indices are
\* pairwise distinct and whose finite weights are pairwise distinct, every
\* order of applying them yields the same set of (index, weight, is-new)
\* entries in the row: whatever the order was, the row holds the pushes of
\* the set with the capacity smallest weights.
RowEntries(h, r) ==
  {[index |-> h[0][r][c], weight |-> h[1][r][c], flag |-> h[2][r][c]] :
     c \in {k \in Slots(h) : h[0][r][k] # -1}}

Lightest(ps, cap) ==
  {p \in ps : Cardinality({q \in ps : q.weight < p.weight}) < cap}

C15_OrderIndependent ==
  RowEntries(heap, 0) = Lightest(pushed, Cardinality(Slots(heap)))

\* three pushes into a row of two slots, in an order whose last push is the
\* heaviest and is rejected (in the other orders it is accepted, then evicted)
C15_Witness ==
  /\ Cardinality(Slots(heap)) = 2
  /\ Cardinality(pushed) = 3
  /\ ret = 0
  /\ \A q \in pushed : q.weight <= call.weight
  /\ \E q \in pushed : q.weight < 0

\* C16: when the heap_push calls of two vertex iterations on the same
\* candidate row interleave at the level of their reads and writes, the
\* result need not be that of a serial order: a state is reachable in which
\* the row holds the same index in two slots, or breaks weight[parent] >=
\* weight[child], or has lost an entry that every serial order keeps.  Two
\* calls that do not overlap, or that push into different rows, leave the
\* heap and the return values of a serial order.
Serial(t, u) ==
  LET fresh  == make_heap(2, bc_max_candidates)
      first  == heap_push(fresh, th[t].row, th[t].weight, th[t].index, th[t].flag)
      second == heap_push(first.heap, th[u].row, th[u].weight, th[u].index, th[u].flag)
  IN  [heap |-> second.heap, ret |-> [x \in {t, u} |-> IF x = t THEN first.ret ELSE second.ret]]

BothDone == \A t \in Threads : th[t].pc = "done"

IndicesHeld(h, r) == {h[0][r][c] : c \in Slots(h)} \ {-1}

SameIndexTwice(r) == ~NoDuplicateRow(candidate_neighbors, r)

ParentBelowChild(r) == ~MaxHeapRow(candidate_neighbors, r)

LostEntry(r) ==
  \E x \in IndicesHeld(Serial(1, 2).heap, r) \cap IndicesHeld(Serial(2, 1).heap, r) :
     x \notin IndicesHeld(candidate_neighbors, r)

C16_SerialUnlessRace ==
  (BothDone /\ ~(overlapped /\ th[1].row = th[2].row))
  => \E t, u \in Threads :
        /\ t # u
        /\ candidate_neighbors = Serial(t, u).heap
        /\ \A x \in Threads : th[x].ret = Serial(t, u).ret[x]

\* both calls have returned 1 after pushing the same index into the same
\* row, and the row holds that index in two slots
C16_Witness ==
  /\ BothDone
  /\ overlapped
  /\ th[1].row = th[2].row
  /\ th[1].index = th[2].index
  /\ th[1].ret = 1
  /\ th[2].ret = 1
  /\ SameIndexTwice(th[1].row)

\* C17: across descent rounds (heap_push calls into the graph between
\* build_candidates calls whose n_neighbors is the capacity of the graph)
\* the is-new flag of an entry travels with its index and weight through the
\* sifts of heap_push: an entry of the graph is handed to the candidate
\* pushes with flag 1 exactly in the first build_candidates call after it
\* was pushed with flag 1, and with flag 0 in every later call and whenever
\* it was pushed with flag 0.
C17_Step ==
  (/\ bc_pc = "loop"
   /\ bc_i < Shape1(heap)
   /\ bc_j < bc_n_neighbors
   /\ heap[0][bc_i][bc_j] >= 0)
  => LET e == g_hist[bc_i][heap[0][bc_i][bc_j]]
         f == bc_pushes'[1].call.flag
     IN  /\ e.calls >= 1
         /\ bc_pushes'[2].call.flag = f
         /\ (f = 1) <=> (e.new = 1 /\ e.calls = 1)

C17_FlagOnce == [][C17_Step]_vars

\* an entry pushed with flag 1 has just been handed over with flag 0, in
\* the second build_candidates call since its push
C17_Witness ==
  /\ bc_pc = "loop"
  /\ Len(bc_pushes) = 2
  /\ bc_pushes[1].call.flag = 0
  /\ g_hist[bc_pushes[1].call.row][bc_pushes[1].call.index] = [new |-> 1, calls |-> 2]

\* C18: heap_push returns 1 exactly when it changed the heap; a call that
\* returns 1 leaves every other row unchanged, leaves the pushed (index,
\* weight, flag) in exactly one slot of its row, and keeps as a multiset
\* every (index, weight, is-new) triple of the row other than the one that
\* was at the root before the call.
Triple(h, r, c) == <<h[0][r][c], h[1][r][c], h[2][r][c]>>

TripleBag(h, r) ==
  [p \in {Triple(h, r, c) : c \in Slots(h)} |->
     Cardinality({c \in Slots(h) : Triple(h, r, c) = p})]

C18_Step ==
  call'.op = "heap_push" =>
    LET r == call'.row
        new == <<call'.index, call'.weight, call'.flag>>
    IN  /\ ret' \in {0, 1}
        /\ (ret' = 1) <=> (heap' # heap)
        /\ ret' = 1 =>
             /\ \A q \in Rows(heap) \ {r} : \A a \in 0..2 : heap'[a][q] = heap[a][q]
             /\ Cardinality({c \in Slots(heap) : Triple(heap', r, c) = new}) = 1
             /\ TripleBag(heap', r) (+) SetToBag({Triple(heap, r, 0)})
                  = TripleBag(heap, r) (+) SetToBag({new})

C18_Frame == [][C18_Step]_vars

\* an accepted push into a row of two slots of a two-row heap: it was
\* sifted below the other entry of its row, and the other row is populated
C18_Witness ==
  /\ call.op = "heap_push"
  /\ ret = 1
  /\ Cardinality(Rows(heap)) = 2
  /\ Cardinality(Slots(heap)) = 2
  /\ heap[0][call.row][1] = call.index
  /\ heap[0][call.row][0] # -1
  /\ heap[2][call.row][0] # call.flag
  /\ \E q \in Rows(heap) \ {call.row} : heap[0][q][0] # -1

\* C19: along heap_push calls with indices >= 0 the root weight of a row
\* never increases and the number of its populated slots (index # -1) never
\* decreases; and a slot with index -1 has weight +infinity and flag 0, as
\* make_heap left it.
Populated(h, r) == Cardinality({c \in Slots(h) : h[0][r][c] # -1})

C19_Step ==
  \A r \in Rows(heap) :
     /\ heap'[1][r][0] <= heap[1][r][0]
     /\ Populated(heap', r) >= Populated(heap, r)

C19_Empty ==
  \A r \in Rows(heap), c \in Slots(heap) :
     heap[0][r][c] = -1 => (heap[1][r][c] = Inf /\ heap[2][r][c] = 0)

C19_Monotone == [][C19_Step]_vars /\ []C19_Empty

\* a row of one slot after its second or third push, which was accepted:
\* it replaced a populated root by an entry that is not heavier
C19_Witness ==
  /\ Cardinality(Rows(heap)) = 1
  /\ Cardinality(Slots(heap)) = 1
  /\ ncalls >= 2
  /\ ret = 1
  /\ call.weight = 0
  /\ heap[1][0][0] = 0

\* C20: build_candidates changes nothing in the graph except is-new flags:
\* every index and weight is unchanged, the flag of every empty slot and of
\* every slot in a column j >= n_neighbors is unchanged, and the generator
\* state advances by exactly one draw per non-empty slot with j <
\* n_neighbors, in row-major order.
RECURSIVE TauDraws(_, _)
TauDraws(state, k) ==
  IF k = 0 THEN state ELSE TauDraws(tau_rand_int(state).state, k - 1)

\* the non-empty slots the loops have passed, in row-major order
Passed ==
  {<<i, j>> \in Rows(heap) \X Slots(heap) :
     /\ j < bc_n_neighbors
     /\ heap[0][i][j] >= 0
     /\ (i < bc_i \/ (i = bc_i /\ j < bc_j))}

C20_Step ==
  (bc_pc = "loop" \/ bc_pc' = "loop") =>
    /\ heap'[0] = heap[0]
    /\ heap'[1] = heap[1]
    /\ \A i \in Rows(heap), j \in Slots(heap) :
          (heap[0][i][j] < 0 \/ j >= bc_n_neighbors') => heap'[2][i][j] = heap[2][i][j]

C20_Draws ==
  bc_pc \in {"loop", "returned"} =>
    /\ rng_state = TauDraws(bc_rng0, Cardinality(Passed))
    /\ bc_pc = "returned" =>
          Passed = {<<i, j>> \in Rows(heap) \X Slots(heap) :
                      j < bc_n_neighbors /\ heap[0][i][j] >= 0}

C20_GraphFrame == [][C20_Step]_vars /\ []C20_Draws

\* returned from a call with n_neighbors = 1 on a graph of two slots a row:
\* a flagged entry in column 1 is still flagged, a slot of column 0 is empty,
\* and the generator has advanced
C20_Witness ==
  /\ bc_pc = "returned"
  /\ bc_n_neighbors = 1
  /\ Cardinality(Slots(heap)) = 2
  /\ \E i \in Rows(heap) : heap[0][i][1] >= 0 /\ heap[2][i][1] = 1
  /\ \E i \in Rows(heap) : heap[0][i][0] < 0
  /\ rng_state # bc_rng0

====
